---- MODULE Spec2Model ----
(***************************************************************************)
(* Model of the entity-extractor-linker pipelines:                         *)
(*   - link_entities and the Wikipedia resolution ladder                   *)
(*     (core/linker.py, services/wikipedia_service.py,                     *)
(*      services/dbpedia_service.py)                 specification LinkSpec *)
(*   - process_entities, infer_entity_relationships and                    *)
(*     deduplicate_relationships_llm                                       *)
(*     (core/api.py, core/relationship_inference.py,                       *)
(*      core/deduplication_utils.py)                 specification ProcSpec *)
(* External collaborators (HTTP endpoints, the text-generation service)    *)
(* are nondeterministic choices over their possible outcomes.              *)
(***************************************************************************)
EXTENDS Integers, Sequences, FiniteSets, TLC

VARIABLES
    \* ---- link_entities -------------------------------------------------
    lcfg,             \* configuration seen by link_entities
    entities,         \* input list of extracted entities
    ent_idx,          \* index of the entity being linked (for-loop position)
    linked_entities,  \* output list
    linked_entity,    \* the record being enriched
    wikipedia_url,    \* local working URL
    lpc,              \* position inside link_entities / get_wikipedia_extract
    gwe,              \* activation record of get_wikipedia_extract
    calls,            \* external requests issued for the current entity
    first_fetch       \* outcome of the first summary request for the entity

lvars == <<lcfg, entities, ent_idx, linked_entities, linked_entity,
           wikipedia_url, lpc, gwe, calls, first_fetch>>

VARIABLES
    \* ---- process_entities ----------------------------------------------
    config,                \* merged configuration (api.py line 35)
    pc,                    \* position inside process_entities and its callees
    n_chunks,              \* len(chunks)
    idx,                   \* chunk loop position
    linked,                \* linked entities of the current chunk / text
    all_entities,          \* entities collected from all chunks
    all_relationships,     \* relationships collected from all chunks
    deduped_entities,
    deduped_relationships,
    existing_rel_map,      \* completion loop accumulator, in insertion order
    round_idx,             \* completion loop position
    kgc_calls,             \* extractor invocations made by the completion loop
    kgc_grew,              \* some completion round added a new key
    llm_called,            \* a text-generation call has been issued
    caller,                \* call site of infer_entity_relationships / dedup
    valid_relationships_explicit,
    rels,                  \* value returned by infer_entity_relationships
    dd,                    \* activation of deduplicate_relationships_llm
    result                 \* value returned by process_entities

pvars == <<config, pc, n_chunks, idx, linked, all_entities, all_relationships,
           deduped_entities, deduped_relationships, existing_rel_map,
           round_idx, kgc_calls, kgc_grew, llm_called, caller,
           valid_relationships_explicit, rels, dd, result>>

VARIABLES
    \* ---- extract_json_relationships --------------------------------------
    raw_json,       \* the response text, as a sequence of tokens
    parsed,         \* the value returned
    xpc             \* "ready" before the call, "returned" after it

xvars == <<raw_json, parsed, xpc>>

vars == <<lvars, pvars, xvars>>

----------------------------------------------------------------------------
(* Values *)

NoVal == "none"

URLs == {"u1", "u2"}

\* a syntactically invalid (hallucinated / truncated) URL
BadUrl == "bad"

\* is_valid_wikipedia_url: the article-URL pattern
IsValidWikipediaUrl(url) == url \in URLs

\* title part of an article URL (split("/wiki/")[1]); articles are identified
\* by their URL, so the title of u is written "t:" \o u
TitleOf(url) == "t:" \o url

\* language of the domain of an article URL
UrlLang(url) == "de"

Call(kind, arg, lang) == [kind |-> kind, arg |-> arg, lang |-> lang]

ApiOutcomes == {"extract", "empty", "error"}
SearchOutcomes == {"error", "nohit", BadUrl} \cup URLs
ScrapeOutcomes == {"content", "nocontent", "error"}

RedirectOutcomes ==
    {[http |-> "error", final |-> "u1", canonical |-> NoVal, title |-> FALSE]}
    \cup [http : {"ok"}, final : URLs, canonical : URLs \cup {NoVal},
          title : BOOLEAN]

----------------------------------------------------------------------------
(* services/wikipedia_service.py *)

\* fallback_wikipedia_url(query, language): opensearch in the configured
\* language first and the secondary one second; s[i] is the outcome of the
\* request in the i-th language.  Every request error is caught inside the
\* loop; the first syntactically valid URL is returned, None otherwise.
RECURSIVE FallbackLoop(_, _, _)
FallbackLoop(langs, s, i) ==
    IF i > Len(langs) THEN NoVal
    ELSE IF s[i] \in {"error", "nohit"} THEN FallbackLoop(langs, s, i + 1)
    ELSE IF IsValidWikipediaUrl(s[i]) THEN s[i]
    ELSE FallbackLoop(langs, s, i + 1)

FallbackWikipediaUrl(query, language, s) ==
    LET langs == IF language = "en" THEN <<"en", "de">> ELSE <<"de", "en">>
    IN  FallbackLoop(langs, s, 1)

\* marker of an exception that leaves a function instead of a return value
Raised == "raised"

\* variant of FollowWikipediaRedirect without the except branch of line 237:
\* a failed request or a page without <title> leaves the function as an
\* exception
FollowWikipediaRedirectNoCatch(url, entity_name, r) ==
    IF r.http = "error"
    THEN [final_url |-> Raised, page_title |-> NoVal]
    ELSE IF r.canonical # NoVal /\ r.canonical # r.final
         THEN [final_url |-> r.canonical, page_title |-> TitleOf(r.canonical)]
         ELSE IF r.title
              THEN [final_url |-> r.final, page_title |-> TitleOf(r.final)]
              ELSE [final_url |-> Raised, page_title |-> NoVal]

\* follow_wikipedia_redirect(url, entity_name) -> (final_url, page_title)
\* (lines 202-241).  A failed request raises inside the try block, and so
\* does a page without <title> (line 235 reads the unbound page_title); both
\* end in the except branch of line 237, which returns the URL it was given.
FollowWikipediaRedirect(url, entity_name, r) ==
    IF r.http = "error"
    THEN [final_url |-> url, page_title |-> TitleOf(url)]
    ELSE IF r.canonical # NoVal /\ r.canonical # r.final
         THEN [final_url |-> r.canonical, page_title |-> TitleOf(r.canonical)]
         ELSE IF r.title
              THEN [final_url |-> r.final, page_title |-> TitleOf(r.final)]
              \* page_title unbound -> exception -> except branch
              ELSE [final_url |-> url, page_title |-> TitleOf(url)]

----------------------------------------------------------------------------
(* core/linker.py: link_entities, with get_wikipedia_extract inlined as a   *)
(* sub-machine (one step per HTTP request)                                  *)

LinkConfigs == [USE_WIKIDATA : BOOLEAN, USE_DBPEDIA : BOOLEAN, LANGUAGE : {"de"}]

\* an extracted entity as handed to link_entities
InputEntities == [name : {"", "A"}, wikipedia_url : {NoVal, BadUrl, "u1"}]

EmptyLinked == [name |-> NoVal, wikipedia_url |-> NoVal,
                wikipedia_extract |-> NoVal, wikipedia_title |-> NoVal,
                wikipedia_categories |-> NoVal, wikidata_id |-> NoVal,
                wikidata_url |-> NoVal, dbpedia_info |-> NoVal]

NoGwe == [site |-> 0, url |-> NoVal, other |-> NoVal]

RECURSIVE SeqsUpTo(_, _)
SeqsUpTo(S, n) ==
    IF n = 0 THEN {<<>>}
    ELSE LET shorter == SeqsUpTo(S, n - 1)
         IN  shorter \cup {Append(q, x) : q \in shorter, x \in S}

\* process_entities is not running
ProcIdle ==
    /\ config = [OPENAI_API_KEY |-> TRUE,
                 TEXT_CHUNKING |-> FALSE, MODE |-> "extract",
                 RELATION_EXTRACTION |-> FALSE,
                 ENABLE_RELATIONS_INFERENCE |-> FALSE, ENABLE_KGC |-> FALSE,
                 enable_kgc |-> FALSE, KGC_ROUNDS |-> 1]
    /\ pc = "idle"
    /\ n_chunks = 0
    /\ idx = 0
    /\ linked = <<>>
    /\ all_entities = <<>>
    /\ all_relationships = <<>>
    /\ deduped_entities = <<>>
    /\ deduped_relationships = <<>>
    /\ existing_rel_map = <<>>
    /\ round_idx = 0
    /\ kgc_calls = 0
    /\ kgc_grew = FALSE
    /\ llm_called = FALSE
    /\ caller = NoVal
    /\ valid_relationships_explicit = <<>>
    /\ rels = <<>>
    /\ dd = [relationships |-> <<>>, gi |-> 0, deduped_result |-> <<>>,
             failed |-> {}]
    /\ result = NoVal

\* extract_json_relationships is not being examined on its own
ParseIdle ==
    /\ raw_json = <<>>
    /\ parsed = NoVal
    /\ xpc = "idle"

LinkInit ==
    /\ lcfg \in LinkConfigs
    /\ entities \in {<<e>> : e \in InputEntities}
    /\ ent_idx = 0
    /\ linked_entities = <<>>
    /\ linked_entity = EmptyLinked
    /\ wikipedia_url = NoVal
    /\ lpc = "next"
    /\ gwe = NoGwe
    /\ calls = <<>>
    /\ first_fetch = NoVal
    /\ ProcIdle
    /\ ParseIdle

\* for entity in entities: (lines 56-75) take the next entity, skip it when
\* it has no name, validate the model-proposed URL.
LinkNextEntity ==
    /\ lpc = "next"
    /\ ent_idx < Len(entities)
    /\ ent_idx' = ent_idx + 1
    /\ calls' = <<>>
    /\ first_fetch' = NoVal
    /\ gwe' = NoGwe
    /\ LET entity == entities[ent_idx + 1]
           llm_generated_url == entity.wikipedia_url
       IN  IF entity.name = ""
           THEN /\ lpc' = "next"
                /\ UNCHANGED <<linked_entity, wikipedia_url, linked_entities>>
           ELSE /\ linked_entity' =
                      [EmptyLinked EXCEPT !.name = entity.name,
                                          !.wikipedia_url = llm_generated_url]
                /\ UNCHANGED linked_entities
                /\ IF llm_generated_url # NoVal
                      /\ IsValidWikipediaUrl(llm_generated_url)
                   THEN /\ wikipedia_url' = llm_generated_url
                        /\ lpc' = "have_url"
                   ELSE /\ wikipedia_url' = NoVal
                        /\ lpc' = "fallback1"
    /\ UNCHANGED <<lcfg, entities>>

LinkLoopDone ==
    /\ lpc = "next"
    /\ ent_idx = Len(entities)
    /\ lpc' = "returned"
    /\ UNCHANGED <<lcfg, entities, ent_idx, linked_entities, linked_entity,
                   wikipedia_url, gwe, calls, first_fetch>>

\* line 75: search fallback when the model-proposed URL is missing/invalid
LinkFallback1 ==
    /\ lpc = "fallback1"
    /\ \E s \in SearchOutcomes \X SearchOutcomes :
         LET url == FallbackWikipediaUrl(linked_entity.name, lcfg.LANGUAGE, s)
         IN  /\ calls' = Append(calls, Call("search", linked_entity.name, lcfg.LANGUAGE))
             /\ wikipedia_url' = url
             /\ lpc' = "have_url"
    /\ UNCHANGED <<lcfg, entities, ent_idx, linked_entities, linked_entity,
                   gwe, first_fetch>>

\* variant of LinkHaveUrl: the enrichment steps are not nested under
\* "if wikipedia_url:" and run for an entity without a working URL too
LinkHaveUrlFlat ==
    /\ lpc = "have_url"
    /\ IF wikipedia_url # NoVal
       THEN /\ linked_entity' = [linked_entity EXCEPT !.wikipedia_url = wikipedia_url]
            /\ gwe' = [site |-> 1, url |-> wikipedia_url, other |-> NoVal]
            /\ lpc' = "gwe_api"
       ELSE /\ lpc' = "categories"
            /\ UNCHANGED <<linked_entity, gwe>>
    /\ UNCHANGED <<lcfg, entities, ent_idx, wikipedia_url, calls, first_fetch,
                   linked_entities>>

\* lines 77-81: if wikipedia_url: record it and try the extract; an entity
\* without a working URL is appended as it is (line 228).
LinkHaveUrl ==
    /\ lpc = "have_url"
    /\ IF wikipedia_url # NoVal
       THEN /\ linked_entity' = [linked_entity EXCEPT !.wikipedia_url = wikipedia_url]
            /\ gwe' = [site |-> 1, url |-> wikipedia_url, other |-> NoVal]
            /\ lpc' = "gwe_api"
            /\ UNCHANGED linked_entities
       ELSE /\ linked_entities' = Append(linked_entities, linked_entity)
            /\ lpc' = "next"
            /\ UNCHANGED <<linked_entity, gwe>>
    /\ UNCHANGED <<lcfg, entities, ent_idx, wikipedia_url, calls, first_fetch>>

\* variant of GweReturn: the redirect check of line 87 is made after the first
\* call whether or not it returned an extract
GweReturnAlwaysRedirect(extract) ==
    /\ gwe' = NoGwe
    /\ linked_entity' =
          IF extract # NoVal
          THEN [linked_entity EXCEPT !.wikipedia_extract = extract]
          ELSE linked_entity
    /\ lpc' = IF gwe.site = 1 THEN "redirect"
              ELSE IF extract # NoVal THEN "categories"
              ELSE IF gwe.site = 2 THEN "fallback2"
              ELSE "categories"

\* return of get_wikipedia_extract to its call site in link_entities:
\*   site 1 = line 81, site 2 = line 95, site 3 = line 103
GweReturn(extract) ==
    /\ gwe' = NoGwe
    /\ linked_entity' =
          IF extract # NoVal
          THEN [linked_entity EXCEPT !.wikipedia_extract = extract]
          ELSE linked_entity
    /\ lpc' = IF extract # NoVal THEN "categories"
              ELSE IF gwe.site = 1 THEN "redirect"
              ELSE IF gwe.site = 2 THEN "fallback2"
              ELSE "categories"

\* get_wikipedia_extract lines 292-301: the summary request for the URL
GweApi ==
    /\ lpc = "gwe_api"
    /\ \E o \in ApiOutcomes :
         /\ calls' = Append(calls, Call("summary", gwe.url, UrlLang(gwe.url)))
         /\ first_fetch' = IF gwe.site = 1 THEN o ELSE first_fetch
         /\ IF o = "extract" THEN GweReturn(gwe.url)
            ELSE IF o = "error" THEN GweReturn(NoVal)   \* outer except, line 394
            ELSE /\ lpc' = "gwe_search"
                 /\ UNCHANGED <<gwe, linked_entity>>
    /\ UNCHANGED <<lcfg, entities, ent_idx, linked_entities, wikipedia_url>>

\* lines 302-305: opensearch for the title of the URL
GweSearch ==
    /\ lpc = "gwe_search"
    /\ \E s \in SearchOutcomes \X SearchOutcomes :
         LET fallback_url == FallbackWikipediaUrl(TitleOf(gwe.url), UrlLang(gwe.url), s)
         IN  /\ calls' = Append(calls, Call("search", TitleOf(gwe.url), UrlLang(gwe.url)))
             /\ IF fallback_url # NoVal /\ fallback_url # gwe.url
                THEN /\ gwe' = [gwe EXCEPT !.other = fallback_url]
                     /\ lpc' = "gwe_fbapi"
                ELSE /\ lpc' = "gwe_redirect"
                     /\ UNCHANGED gwe
    /\ UNCHANGED <<lcfg, entities, ent_idx, linked_entities, linked_entity,
                   wikipedia_url, first_fetch>>

\* lines 306-326: the summary request for the URL the search returned
GweFallbackApi ==
    /\ lpc = "gwe_fbapi"
    /\ \E o \in ApiOutcomes :
         /\ calls' = Append(calls, Call("summary", gwe.other, UrlLang(gwe.url)))
         /\ IF o = "extract" THEN GweReturn(gwe.other)
            ELSE /\ lpc' = "gwe_redirect"
                 /\ UNCHANGED <<gwe, linked_entity>>
    /\ UNCHANGED <<lcfg, entities, ent_idx, linked_entities, wikipedia_url,
                   first_fetch>>

\* lines 327-329: soft-redirect check before scraping
GweRedirect ==
    /\ lpc = "gwe_redirect"
    /\ \E r \in RedirectOutcomes :
         LET f == FollowWikipediaRedirect(gwe.url, TitleOf(gwe.url), r)
         IN  /\ calls' = Append(calls, Call("redirect", gwe.url, ""))
             /\ IF f.final_url # gwe.url /\ f.final_url # Raised
                THEN /\ gwe' = [gwe EXCEPT !.other = f.final_url]
                     /\ lpc' = "gwe_srapi"
                \* same URL, or an exception caught at line 351
                ELSE /\ lpc' = "gwe_scrape"
                     /\ UNCHANGED gwe
    /\ UNCHANGED <<lcfg, entities, ent_idx, linked_entities, linked_entity,
                   wikipedia_url, first_fetch>>

\* lines 330-352: the summary request for the redirect target
GweRedirectApi ==
    /\ lpc = "gwe_srapi"
    /\ \E o \in ApiOutcomes :
         /\ calls' = Append(calls, Call("summary", gwe.other, UrlLang(gwe.url)))
         /\ IF o = "extract" THEN GweReturn(gwe.other)
            ELSE /\ lpc' = "gwe_scrape"
                 /\ UNCHANGED <<gwe, linked_entity>>
    /\ UNCHANGED <<lcfg, entities, ent_idx, linked_entities, wikipedia_url,
                   first_fetch>>

\* lines 353-393: raw page fetch and paragraph scraping
GweScrape ==
    /\ lpc = "gwe_scrape"
    /\ \E o \in ScrapeOutcomes :
         /\ calls' = Append(calls, Call("scrape", gwe.url, ""))
         /\ GweReturn(IF o = "content" THEN gwe.url ELSE NoVal)
    /\ UNCHANGED <<lcfg, entities, ent_idx, linked_entities, wikipedia_url,
                   first_fetch>>

\* link_entities lines 85-95: no extract, so check for a redirect, adopt the
\* target and call get_wikipedia_extract again
LinkRedirect ==
    /\ lpc = "redirect"
    /\ \E r \in RedirectOutcomes :
         LET f == FollowWikipediaRedirect(wikipedia_url, linked_entity.name, r)
             moved == f.final_url # NoVal /\ f.final_url # wikipedia_url
             url2 == IF moved THEN f.final_url ELSE wikipedia_url
         IN  /\ calls' = Append(calls, Call("redirect", wikipedia_url, ""))
             /\ IF f.final_url = Raised
                \* line 87 is in no try block: the exception leaves
                \* link_entities
                THEN /\ lpc' = Raised
                     /\ UNCHANGED <<wikipedia_url, linked_entity, gwe>>
                ELSE /\ wikipedia_url' = url2
                     /\ linked_entity' =
                           [linked_entity EXCEPT
                              !.wikipedia_url = url2,
                              !.wikipedia_title =
                                 IF f.page_title # NoVal
                                    /\ f.page_title # linked_entity.name
                                 THEN f.page_title ELSE @]
                     /\ gwe' = [site |-> 2, url |-> url2, other |-> NoVal]
                     /\ lpc' = "gwe_api"
    /\ UNCHANGED <<lcfg, entities, ent_idx, linked_entities, first_fetch>>

\* lines 96-103: last fallback, opensearch for the entity name
LinkFallback2 ==
    /\ lpc = "fallback2"
    /\ \E s \in SearchOutcomes \X SearchOutcomes :
         LET fallback_url == FallbackWikipediaUrl(linked_entity.name, lcfg.LANGUAGE, s)
         IN  /\ calls' = Append(calls, Call("search", linked_entity.name, lcfg.LANGUAGE))
             /\ IF fallback_url # NoVal /\ fallback_url # wikipedia_url
                THEN /\ wikipedia_url' = fallback_url
                     /\ linked_entity' = [linked_entity EXCEPT !.wikipedia_url = fallback_url]
                     /\ gwe' = [site |-> 3, url |-> fallback_url, other |-> NoVal]
                     /\ lpc' = "gwe_api"
                ELSE /\ lpc' = "categories"
                     /\ UNCHANGED <<wikipedia_url, linked_entity, gwe>>
    /\ UNCHANGED <<lcfg, entities, ent_idx, linked_entities, first_fetch>>

\* lines 107-111: categories only when an extract was found
LinkCategories ==
    /\ lpc = "categories"
    /\ IF linked_entity.wikipedia_extract # NoVal
       THEN \E cats \in {NoVal, "cats"} :
              /\ calls' = Append(calls, Call("categories", linked_entity.wikipedia_url, ""))
              /\ linked_entity' =
                    IF cats # NoVal
                    THEN [linked_entity EXCEPT !.wikipedia_categories = cats]
                    ELSE linked_entity
       ELSE UNCHANGED <<calls, linked_entity>>
    /\ lpc' = "wikidata"
    /\ UNCHANGED <<lcfg, entities, ent_idx, linked_entities, wikipedia_url, gwe,
                   first_fetch>>

\* outcomes of the structured-fact-store lookup (id, then details)
WikidataOutcomes == {[id |-> NoVal, details |-> FALSE],
                     [id |-> "Q1", details |-> FALSE],
                     [id |-> "Q1", details |-> TRUE]}

\* line 121: the condition under which the Wikidata lookup is issued.  The
\* statement sits inside "if wikipedia_url:" (line 77) and tests only the
\* configuration.
WikidataLookupIssued(cfg, ent) == cfg.USE_WIKIDATA

\* lines 120-183: Wikidata id and details
LinkWikidata ==
    /\ lpc = "wikidata"
    /\ IF WikidataLookupIssued(lcfg, linked_entity)
       THEN \E w \in WikidataOutcomes :
              /\ calls' = Append(calls, Call("wikidata", linked_entity.wikipedia_url, ""))
              /\ linked_entity' =
                    IF w.id # NoVal
                    THEN [linked_entity EXCEPT
                            !.wikidata_id = w.id,
                            !.wikidata_url = IF w.details THEN "wd:" \o w.id ELSE @]
                    ELSE linked_entity
       ELSE UNCHANGED <<calls, linked_entity>>
    /\ lpc' = "dbpedia"
    /\ UNCHANGED <<lcfg, entities, ent_idx, linked_entities, wikipedia_url, gwe,
                   first_fetch>>

DbpediaOutcomes == {"bindings", "nobindings", "error"}

\* services/dbpedia_service.py get_dbpedia_info_from_wikipedia_url: the
\* result of query_dbpedia_resource with dbpedia_language/dbpedia_title
\* added to it; {} only from the except branch.
GetDbpediaInfoFromWikipediaUrl(url, cfg, d) ==
    IF ~cfg.USE_DBPEDIA THEN NoVal
    ELSE IF d = "error" THEN NoVal
    ELSE IF d = "bindings" THEN "full"
    ELSE "meta_only"

\* variant of DbpediaLookupIssued: the USE_DBPEDIA switch is not consulted
DbpediaLookupAlways(cfg, ent) == TRUE

\* line 186: the condition under which the DBpedia lookup is issued.  Like
\* line 121 it sits inside "if wikipedia_url:" and tests only the
\* configuration.
DbpediaLookupIssued(cfg, ent) == cfg.USE_DBPEDIA

\* variant of LinkDbpedia: the DBpedia title is written over the entity's
\* wikipedia_title
LinkDbpediaRetitles ==
    /\ lpc = "dbpedia"
    /\ IF DbpediaLookupIssued(lcfg, linked_entity)
       THEN \E d \in DbpediaOutcomes :
              LET dbpedia_info ==
                    GetDbpediaInfoFromWikipediaUrl(linked_entity.wikipedia_url, lcfg, d)
                  le == IF dbpedia_info # NoVal
                        THEN [linked_entity EXCEPT !.dbpedia_info = dbpedia_info,
                                                   !.wikipedia_title = "t:dbpedia"]
                        ELSE linked_entity
              IN  /\ calls' = Append(calls, Call("dbpedia", linked_entity.wikipedia_url, ""))
                  /\ linked_entity' = le
                  /\ linked_entities' = Append(linked_entities, le)
       ELSE /\ linked_entities' = Append(linked_entities, linked_entity)
            /\ UNCHANGED <<calls, linked_entity>>
    /\ lpc' = "next"
    /\ UNCHANGED <<lcfg, entities, ent_idx, wikipedia_url, gwe, first_fetch>>

\* lines 185-228: DBpedia information, then linked_entities.append
LinkDbpedia ==
    /\ lpc = "dbpedia"
    /\ IF DbpediaLookupIssued(lcfg, linked_entity)
       THEN \E d \in DbpediaOutcomes :
              LET dbpedia_info ==
                    GetDbpediaInfoFromWikipediaUrl(linked_entity.wikipedia_url, lcfg, d)
                  le == IF dbpedia_info # NoVal
                        THEN [linked_entity EXCEPT !.dbpedia_info = dbpedia_info]
                        ELSE linked_entity
              IN  /\ calls' = Append(calls, Call("dbpedia", linked_entity.wikipedia_url, ""))
                  /\ linked_entity' = le
                  /\ linked_entities' = Append(linked_entities, le)
       ELSE /\ linked_entities' = Append(linked_entities, linked_entity)
            /\ UNCHANGED <<calls, linked_entity>>
    /\ lpc' = "next"
    /\ UNCHANGED <<lcfg, entities, ent_idx, wikipedia_url, gwe, first_fetch>>

LinkNext ==
    \/ LinkNextEntity /\ UNCHANGED <<pvars, xvars>>
    \/ LinkLoopDone /\ UNCHANGED <<pvars, xvars>>
    \/ LinkFallback1 /\ UNCHANGED <<pvars, xvars>>
    \/ LinkHaveUrl /\ UNCHANGED <<pvars, xvars>>
    \/ GweApi /\ UNCHANGED <<pvars, xvars>>
    \/ GweSearch /\ UNCHANGED <<pvars, xvars>>
    \/ GweFallbackApi /\ UNCHANGED <<pvars, xvars>>
    \/ GweRedirect /\ UNCHANGED <<pvars, xvars>>
    \/ GweRedirectApi /\ UNCHANGED <<pvars, xvars>>
    \/ GweScrape /\ UNCHANGED <<pvars, xvars>>
    \/ LinkRedirect /\ UNCHANGED <<pvars, xvars>>
    \/ LinkFallback2 /\ UNCHANGED <<pvars, xvars>>
    \/ LinkCategories /\ UNCHANGED <<pvars, xvars>>
    \/ LinkWikidata /\ UNCHANGED <<pvars, xvars>>
    \/ LinkDbpedia /\ UNCHANGED <<pvars, xvars>>

LinkSpec == LinkInit /\ [][LinkNext]_vars

----------------------------------------------------------------------------
(* process_entities (core/api.py), infer_entity_relationships              *)
(* (core/relationship_inference.py) and deduplicate_relationships_llm      *)
(* (core/deduplication_utils.py): one step per text-generation call.       *)

MaxChunks == 2      \* chunks per text
MaxTriples == 1     \* triples per relationship response
MaxRounds == 2      \* KGC_ROUNDS

Names == {"A", "B"}        \* names of extracted entities
Unknown == "X"             \* a name the service invents
Predicates == {"p", "q"}
Rephrased == "r"           \* a predicate wording the service makes up
NonStr == "nonstring"      \* a JSON null, number or boolean
GenModes == {"generate", "compendium"}

\* tags the service may put into the inferred field of a triple
ServiceTags == {"explicit", "implicit", "explizit", "implizit", NonStr, NoVal}

\* the configuration keys process_entities and its callees read;
\* OPENAI_API_KEY stands for "a credential is found in the configuration or
\* in the environment"
ProcConfigs ==
    {c \in [OPENAI_API_KEY : BOOLEAN,
            TEXT_CHUNKING : BOOLEAN, MODE : {"extract", "generate"},
            RELATION_EXTRACTION : BOOLEAN,
            ENABLE_RELATIONS_INFERENCE : BOOLEAN,
            ENABLE_KGC : BOOLEAN, enable_kgc : BOOLEAN,
            KGC_ROUNDS : 1..MaxRounds] :
        \* keys that are not read under the other settings are left at
        \* their defaults
        /\ ~c.RELATION_EXTRACTION =>
              (~c.ENABLE_RELATIONS_INFERENCE /\ ~c.enable_kgc)
        /\ ~c.TEXT_CHUNKING => (~c.enable_kgc /\ c.KGC_ROUNDS = 1)
        /\ ~c.ENABLE_KGC => (~c.enable_kgc /\ c.KGC_ROUNDS = 1)}

\* a linked entity as process_entities sees it; details_inferred is the
\* inferred value inside "details" of the legacy format
Entity(name, url, inferred) ==
    [name |-> name, type |-> "T", wikipedia_url |-> url,
     inferred |-> inferred, details_inferred |-> NoVal]

\* the inferred field of an extracted entity: extraction stores none,
\* generation keeps the value of the response (default "implicit")
EntityTag(mode, name) ==
    IF mode \in GenModes
    THEN IF name = "A" THEN "implicit" ELSE "explizit"
    ELSE NoVal

\* results of extract_entities/generate_entities + link_entities for a
\* chunk: no entity, two entities with distinct articles, two entities
\* resolved to the same article, an entity without a URL
LinkedLists(mode) ==
    {<<>>} \cup
    {<<Entity("A", "u1", EntityTag(mode, "A")),
       Entity("B", url, EntityTag(mode, "B"))>> : url \in {"u2", "u1", NoVal}}

\* openai_service.py lines 31-37 and generator.py lines 89-95: without a
\* credential the entity step returns [] before any call
ExtractedLists(cfg) ==
    IF cfg.OPENAI_API_KEY THEN LinkedLists(cfg.MODE) ELSE {<<>>}

Triple(s, p, o, tag) ==
    [subject |-> s, predicate |-> p, object |-> o, inferred |-> tag]

\* objects of a relationship response: triples between the known entities
\* (one of them with every tag the service may send), a triple naming an
\* unknown entity, an object without a predicate key
RawTriples ==
    {Triple("A", "p", "B", t) : t \in ServiceTags}
    \cup {Triple("A", "q", "B", "explicit"), Triple("B", "p", "A", "explicit"),
          Triple("A", "p", Unknown, "explicit"),
          Triple("A", NoVal, "B", "explicit")}

\* what a text-generation call does: the client raises ("error"), the
\* content holds no JSON ("garbage"), the content is JSON but no array
\* ("scalar"), the content holds a JSON array of objects ("list")
Response(kind, items) == [kind |-> kind, items |-> items]

FailKinds == {"error", "garbage", "scalar"}

RelResponses ==
    {Response(k, <<>>) : k \in FailKinds}
    \cup {Response("list", q) : q \in SeqsUpTo(RawTriples, MaxTriples)}

\* {"predicate": ..., "inferred": ...} as the deduplication prompt shows a
\* triple of the group
Shown(r) ==
    [predicate |-> r.predicate,
     inferred |-> IF r.inferred = NoVal THEN "explicit" ELSE r.inferred]

\* the same predicate with the other tag
Retagged(r) ==
    [predicate |-> r.predicate,
     inferred |-> IF r.inferred = "implicit" THEN "explicit" ELSE "implicit"]

\* answers to the deduplication prompt for a group: the call fails, the
\* array is empty, one triple of the group is kept, both are kept, one is
\* repeated, one comes back with the other tag, a wording of the service's
\* own comes back alone, with a subject key of its own, or next to a kept
\* triple, an object lacks the predicate key
DedupResponses(group) ==
    LET new == [predicate |-> Rephrased, inferred |-> NoVal]
        bad == [predicate |-> NoVal, inferred |-> "explicit"]
        \* an object that names its own subject
        own == [predicate |-> Rephrased, inferred |-> NoVal,
                subject |-> Unknown]
    IN  {Response(k, <<>>) : k \in FailKinds}
        \cup {Response("list", q) :
                q \in {<<>>, <<Shown(group[1])>>, <<Shown(group[2])>>,
                       <<Shown(group[1]), Shown(group[2])>>,
                       <<Shown(group[1]), Shown(group[1])>>,
                       <<Retagged(group[1])>>, <<new>>, <<own>>,
                       <<Shown(group[1]), new>>,
                       <<Shown(group[1]), bad>>}}

\* extract_json_relationships: the parsed value, [] when parsing fails
ExtractJsonRelationships(raw) ==
    CASE raw.kind = "list" -> Response("list", raw.items)
      [] raw.kind = "scalar" -> Response("scalar", <<>>)
      [] OTHER -> Response("list", <<>>)

SeqMax(S) == CHOOSE m \in S : \A n \in S : n <= m

\* entity_type_map.get(name, "")
entity_type_map(ents, name) ==
    LET at == {i \in DOMAIN ents : ents[i].name = name /\ name # ""
                                   /\ ents[i].type # ""}
    IN  IF at = {} THEN "" ELSE ents[SeqMax(at)].type

\* entity_inferred_map.get(name, "explicit")
entity_inferred_map(ents, name) ==
    LET at == {i \in DOMAIN ents : ents[i].name = name}
    IN  IF at = {} THEN "explicit"
        ELSE IF ents[SeqMax(at)].inferred = NoVal THEN "explizit"
        ELSE ents[SeqMax(at)].inferred

HasKeys(rel) ==
    rel.subject # NoVal /\ rel.predicate # NoVal /\ rel.object # NoVal

\* the extractor's tag: the response's own value (default "explicit") in
\* generate/compendium mode, else the fixed tag of the framing
inferred_status(rel, mode, fixed) ==
    IF fixed = "explicit" /\ mode \in GenModes
    THEN IF rel.inferred = NoVal THEN "explicit" ELSE rel.inferred
    ELSE fixed

\* type and provenance backfill of one triple
Backfill(rel, ents, mode, fixed) ==
    [subject |-> rel.subject, predicate |-> rel.predicate,
     object |-> rel.object,
     inferred |-> inferred_status(rel, mode, fixed),
     subject_type |-> entity_type_map(ents, rel.subject),
     object_type |-> entity_type_map(ents, rel.object),
     subject_inferred |-> entity_inferred_map(ents, rel.subject),
     object_inferred |-> entity_inferred_map(ents, rel.object)]

\* the loop that builds valid_relationships_explicit / _implicit
RECURSIVE ValidRelationships(_, _, _, _)
ValidRelationships(items, ents, mode, fixed) ==
    IF items = <<>> THEN <<>>
    ELSE LET rel == Head(items)
             rest == ValidRelationships(Tail(items), ents, mode, fixed)
         IN  IF /\ HasKeys(rel)
                /\ entity_type_map(ents, rel.subject) # ""
                /\ entity_type_map(ents, rel.object) # ""
             THEN <<Backfill(rel, ents, mode, fixed)>> \o rest
             ELSE rest

KeyOf(rel) == <<rel.subject, rel.predicate, rel.object>>

Keys(seq) == {KeyOf(seq[i]) : i \in DOMAIN seq}

Range(seq) == {seq[i] : i \in DOMAIN seq}

\* {key(r): r for r in seq}: one entry per key at the place of the key's
\* first occurrence, holding the key's last record
DictOf(seq) ==
    LET firsts == SelectSeq([i \in DOMAIN seq |-> i],
                     LAMBDA i : \A j \in 1..(i - 1) : KeyOf(seq[j]) # KeyOf(seq[i]))
        last(i) == SeqMax({j \in DOMAIN seq : KeyOf(seq[j]) = KeyOf(seq[i])})
    IN  [n \in DOMAIN firsts |-> seq[last(firsts[n])]]

\* variant of AddNewKeys: map[key] = rel without the membership test, so a
\* later triple replaces the stored one
RECURSIVE AddNewKeysLastWins(_, _)
AddNewKeysLastWins(map, new) ==
    IF new = <<>> THEN map
    ELSE LET rel == Head(new)
             at == {i \in DOMAIN map : KeyOf(map[i]) = KeyOf(rel)}
         IN  IF at = {}
             THEN AddNewKeysLastWins(Append(map, rel), Tail(new))
             ELSE AddNewKeysLastWins(
                      [i \in DOMAIN map |-> IF i \in at THEN rel ELSE map[i]],
                      Tail(new))

\* for rel in new: if key not in map: map[key] = rel
RECURSIVE AddNewKeys(_, _)
AddNewKeys(map, new) ==
    IF new = <<>> THEN map
    ELSE IF KeyOf(Head(new)) \in Keys(map)
         THEN AddNewKeys(map, Tail(new))
         ELSE AddNewKeys(Append(map, Head(new)), Tail(new))

\* api.py lines 76-85: exact-key collapse of the relationships of all chunks
RECURSIVE rel_map(_, _)
rel_map(map, all) ==
    IF all = <<>> THEN map
    ELSE LET rel == Head(all)
             at == {i \in DOMAIN map : KeyOf(map[i]) = KeyOf(rel)}
         IN  IF at = {} THEN rel_map(Append(map, rel), Tail(all))
             ELSE LET i == SeqMax(at)
                  IN  IF map[i].inferred = "implizit" /\ rel.inferred = "explizit"
                      THEN rel_map([map EXCEPT ![i] = rel], Tail(all))
                      ELSE rel_map(map, Tail(all))

\* api.py lines 68-73: entities deduplicated by wikipedia_url or name
RECURSIVE DedupEntities(_, _, _)
DedupEntities(out, seen, all) ==
    IF all = <<>> THEN out
    ELSE LET ent == Head(all)
             key == IF ent.wikipedia_url # NoVal THEN ent.wikipedia_url
                    ELSE ent.name
         IN  IF key # "" /\ key # NoVal /\ key \notin seen
             THEN DedupEntities(Append(out, ent), seen \cup {key}, Tail(all))
             ELSE DedupEntities(out, seen, Tail(all))

PairOf(rel) == <<rel.subject, rel.object>>

\* grouped.items(): the (subject, object) pairs in order of first occurrence
GroupKeys(relationships) ==
    LET firsts == SelectSeq([i \in DOMAIN relationships |-> i],
                     LAMBDA i : \A j \in 1..(i - 1) :
                                  PairOf(relationships[j]) # PairOf(relationships[i]))
    IN  [n \in DOMAIN firsts |-> PairOf(relationships[firsts[n]])]

Group(relationships, pair) ==
    SelectSeq(relationships, LAMBDA r : PairOf(r) = pair)

\* r.get("inferred", "explicit")
GetInferred(r) == IF r.inferred = NoVal THEN "explicit" ELSE r.inferred

\* c.get(k, default) for a response object
GetKey(c, k, default) == IF k \in DOMAIN c THEN c[k] ELSE default

\* {"subject": subj, "object": obj, **c}: the keys of c are unpacked last,
\* so a subject or object key of the response object replaces the group's
Synthetic(pair, c) ==
    [subject |-> GetKey(c, "subject", pair[1]), predicate |-> c.predicate,
     object |-> GetKey(c, "object", pair[2]),
     inferred |-> c.inferred,
     subject_type |-> NoVal, object_type |-> NoVal,
     subject_inferred |-> NoVal, object_inferred |-> NoVal]

\* deduplication_utils.py lines 71-76: the loop over the cleaned objects;
\* ok is FALSE when an object without "predicate" raised part-way through
RECURSIVE ProcessCleaned(_, _, _, _)
ProcessCleaned(out, group, pair, cleaned) ==
    IF cleaned = <<>> THEN [ok |-> TRUE, out |-> out]
    ELSE LET c == Head(cleaned)
             hits == {i \in DOMAIN group :
                         /\ group[i].predicate = c.predicate
                         /\ GetInferred(group[i]) = GetInferred(c)}
         IN  IF c.predicate = NoVal THEN [ok |-> FALSE, out |-> out]
             ELSE IF hits # {}
             THEN ProcessCleaned(
                      Append(out, group[CHOOSE i \in hits : \A j \in hits : i <= j]),
                      group, pair, Tail(cleaned))
             ELSE ProcessCleaned(Append(out, Synthetic(pair, c)),
                                 group, pair, Tail(cleaned))

\* deduplication_utils.py lines 59-80: what one multi-member group adds to
\* deduped_result for a given behaviour of the service
DedupGroupOutput(group, pair, resp) ==
    IF resp.kind = "error" THEN group
    ELSE LET cleaned == ExtractJsonRelationships(resp)
         IN  IF cleaned.kind = "scalar" THEN group
             ELSE LET done == ProcessCleaned(<<>>, group, pair, cleaned.items)
                  IN  IF done.ok THEN done.out ELSE done.out \o group

\* semantic similarity of two predicate phrases at threshold 0.85: the
\* service's wording "r" paraphrases "p"; "p" and "q" differ in meaning
SimilarPredicates(p1, p2) ==
    p1 = p2 \/ {p1, p2} = {"p", Rephrased}

\* filter_semantically_similar_relationships: within one (subject, object)
\* pair a triple is dropped when an earlier kept triple has a similar
\* predicate
RECURSIVE filter_semantically_similar_relationships(_, _)
filter_semantically_similar_relationships(kept, relationships) ==
    IF relationships = <<>> THEN kept
    ELSE LET rel == Head(relationships)
             dup == \E i \in DOMAIN kept :
                       /\ PairOf(kept[i]) = PairOf(rel)
                       /\ SimilarPredicates(kept[i].predicate, rel.predicate)
         IN  filter_semantically_similar_relationships(
                 IF dup THEN kept ELSE Append(kept, rel),
                 Tail(relationships))

\* api.py lines 139-140, 143-144: the two-valued normalisation of one tag
NormalizeTag(tag) ==
    IF tag \in {"explizit", "explicit"} THEN "explicit"
    ELSE IF tag \in {"implizit", "implicit"} THEN "implicit"
    ELSE tag

\* api.py lines 137-140: only details.inferred of an entity is touched
NormalizeEntity(ent) ==
    [ent EXCEPT !.details_inferred = NormalizeTag(@)]

\* api.py lines 141-153
NormalizeRel(rel) ==
    [rel EXCEPT !.inferred = NormalizeTag(@),
                !.subject_inferred = NormalizeTag(@),
                !.object_inferred = NormalizeTag(@)]

\* .lower() on a value that is not a string raises
NormalizeRaises(ents, relationships) ==
    \/ \E i \in DOMAIN ents : ents[i].details_inferred = NonStr
    \/ \E i \in DOMAIN relationships :
          NonStr \in {relationships[i].inferred,
                      relationships[i].subject_inferred,
                      relationships[i].object_inferred}

Normalized(ents, relationships) ==
    [entities |-> [i \in DOMAIN ents |-> NormalizeEntity(ents[i])],
     relationships |-> [i \in DOMAIN relationships |->
                           NormalizeRel(relationships[i])]]

\* api.py lines 180-190: the legacy format keeps the tag under "details"
LegacyEntity(entity) ==
    [name |-> entity.name, type |-> entity.type,
     wikipedia_url |-> entity.wikipedia_url, inferred |-> NoVal,
     details_inferred |-> IF entity.inferred = NoVal THEN "explizit"
                          ELSE entity.inferred]

NoDd == [relationships |-> <<>>, gi |-> 0, deduped_result |-> <<>>,
         failed |-> {}]

\* the entity list infer_entity_relationships was called with
InferEntities == IF caller = "kgc" THEN deduped_entities ELSE linked

\* variant of InferEntry: the credential is not looked at
InferEntryNoKeyCheck(cfg, existing_given) ==
    IF ~cfg.RELATION_EXTRACTION THEN "infer_return"
    ELSE IF cfg.enable_kgc /\ existing_given THEN "infer_kgc"
    ELSE "infer_explicit"

\* relationship_inference.py lines 48-50, 57-63 and 120-121: where a call
\* of infer_entity_relationships goes first
InferEntry(cfg, existing_given) ==
    IF ~cfg.RELATION_EXTRACTION THEN "infer_return"
    ELSE IF ~cfg.OPENAI_API_KEY THEN "infer_return"
    ELSE IF cfg.enable_kgc /\ existing_given THEN "infer_kgc"
    ELSE "infer_explicit"

\* relationship_inference.py lines 166-175: the new triples of a completion
\* response
RECURSIVE KgcValidNew(_, _, _)
KgcValidNew(new_rels, existing_rels, ents) ==
    IF new_rels = <<>> THEN <<>>
    ELSE LET rel == Head(new_rels)
             rest == KgcValidNew(Tail(new_rels), existing_rels, ents)
         IN  IF KeyOf(rel) \notin Keys(existing_rels) /\ HasKeys(rel)
             THEN <<[subject |-> rel.subject, predicate |-> rel.predicate,
                     object |-> rel.object, inferred |-> "implicit",
                     subject_type |-> entity_type_map(ents, rel.subject),
                     object_type |-> entity_type_map(ents, rel.object),
                     subject_inferred |-> NoVal,
                     object_inferred |-> NoVal]>> \o rest
             ELSE rest

\* range(1, rounds): the loop stops one round early
KgcRangeShort(rounds) == 1..(rounds - 1)

\* range(1, rounds + 1)
KgcRange(rounds) == 1..rounds

StartDd(relationships) ==
    [relationships |-> relationships, gi |-> 1, deduped_result |-> <<>>,
     failed |-> {}]

\* deduplication_utils.py lines 20-26 and 82: without a credential the
\* input list is returned as it is
DedupOutput(cfg, d) ==
    IF cfg.OPENAI_API_KEY THEN d.deduped_result ELSE d.relationships

\* the service call of a group failed or its response could not be processed
Unprocessable(resp) ==
    \/ resp.kind \in FailKinds
    \/ resp.items = <<>>
    \/ \E i \in DOMAIN resp.items : resp.items[i].predicate = NoVal

LinkIdle ==
    /\ lcfg = [USE_WIKIDATA |-> FALSE, USE_DBPEDIA |-> FALSE, LANGUAGE |-> "de"]
    /\ entities = <<>>
    /\ ent_idx = 0
    /\ linked_entities = <<>>
    /\ linked_entity = EmptyLinked
    /\ wikipedia_url = NoVal
    /\ lpc = "returned"
    /\ gwe = NoGwe
    /\ calls = <<>>
    /\ first_fetch = NoVal

ProcInit ==
    /\ config \in ProcConfigs
    /\ n_chunks \in IF config.TEXT_CHUNKING THEN 1..MaxChunks ELSE {1}
    /\ pc = IF config.TEXT_CHUNKING THEN "chunk" ELSE "single"
    /\ idx = 1
    /\ linked = <<>>
    /\ all_entities = <<>>
    /\ all_relationships = <<>>
    /\ deduped_entities = <<>>
    /\ deduped_relationships = <<>>
    /\ existing_rel_map = <<>>
    /\ round_idx = 0
    /\ kgc_calls = 0
    /\ kgc_grew = FALSE
    /\ llm_called = FALSE
    /\ caller = NoVal
    /\ valid_relationships_explicit = <<>>
    /\ rels = <<>>
    /\ dd = NoDd
    /\ result = NoVal
    /\ LinkIdle
    /\ ParseIdle

world == <<config, n_chunks>>

\* api.py lines 53-64: entities of the next chunk, then the call of
\* infer_entity_relationships when relation extraction is on
ChunkEntities ==
    /\ pc = "chunk"
    /\ idx <= n_chunks
    /\ \E l \in ExtractedLists(config) :
          /\ linked' = l
          /\ all_entities' = all_entities \o l
    /\ IF config.RELATION_EXTRACTION
       THEN /\ caller' = "chunk"
            /\ pc' = InferEntry(config, FALSE)
            /\ idx' = idx
       ELSE /\ idx' = idx + 1
            /\ UNCHANGED <<caller, pc>>
    /\ llm_called' = (llm_called \/ config.OPENAI_API_KEY)
    /\ UNCHANGED <<world, all_relationships, deduped_entities,
                   deduped_relationships, existing_rel_map, round_idx,
                   kgc_calls, kgc_grew, valid_relationships_explicit, rels,
                   dd, result>>

\* api.py lines 64-66
ChunkReturn ==
    /\ pc = "infer_return"
    /\ caller = "chunk"
    /\ all_relationships' = all_relationships \o rels
    /\ idx' = idx + 1
    /\ pc' = "chunk"
    /\ rels' = <<>>
    /\ caller' = NoVal
    /\ UNCHANGED <<world, llm_called, linked, all_entities, deduped_entities,
                   deduped_relationships, existing_rel_map, round_idx,
                   kgc_calls, kgc_grew, valid_relationships_explicit, dd,
                   result>>

\* relationship_inference.py lines 298-332 and 438-440: the first call
InferExplicit ==
    /\ pc = "infer_explicit"
    /\ \E resp \in RelResponses :
          LET relationships_explicit == ExtractJsonRelationships(resp)
              valid == ValidRelationships(relationships_explicit.items,
                           InferEntities, config.MODE, "explicit")
          IN  IF resp.kind = "error" \/ relationships_explicit.kind = "scalar"
              THEN /\ rels' = <<>>
                   /\ pc' = "infer_return"
                   /\ UNCHANGED valid_relationships_explicit
              ELSE IF ~config.ENABLE_RELATIONS_INFERENCE
              THEN /\ rels' = valid
                   /\ pc' = "infer_return"
                   /\ UNCHANGED valid_relationships_explicit
              ELSE /\ valid_relationships_explicit' = valid
                   /\ pc' = "infer_implicit"
                   /\ UNCHANGED rels
    /\ llm_called' = TRUE
    /\ UNCHANGED <<world, idx, linked, all_entities, all_relationships,
                   deduped_entities, deduped_relationships, existing_rel_map,
                   round_idx, kgc_calls, kgc_grew, caller, dd, result>>

\* relationship_inference.py lines 393-440: the second call and the merge
InferImplicit ==
    /\ pc = "infer_implicit"
    /\ \E resp \in RelResponses :
          LET relationships_implicit == ExtractJsonRelationships(resp)
              valid == ValidRelationships(relationships_implicit.items,
                           InferEntities, config.MODE, "implicit")
          IN  IF resp.kind = "error" \/ relationships_implicit.kind = "scalar"
              THEN rels' = <<>>
              ELSE rels' = AddNewKeys(DictOf(valid_relationships_explicit), valid)
    /\ pc' = "infer_return"
    /\ valid_relationships_explicit' = <<>>
    /\ llm_called' = TRUE
    /\ UNCHANGED <<world, idx, linked, all_entities, all_relationships,
                   deduped_entities, deduped_relationships, existing_rel_map,
                   round_idx, kgc_calls, kgc_grew, caller, dd, result>>

\* relationship_inference.py lines 154-175: the completion framing; the call
\* is outside any try block
InferKgc ==
    /\ pc = "infer_kgc"
    /\ \E resp \in RelResponses :
          LET new_rels == ExtractJsonRelationships(resp)
          IN  IF resp.kind = "error" \/ new_rels.kind = "scalar"
              THEN /\ pc' = "raised"
                   /\ UNCHANGED rels
              ELSE /\ rels' = KgcValidNew(new_rels.items, existing_rel_map,
                                          InferEntities)
                   /\ pc' = "infer_return"
    /\ llm_called' = TRUE
    /\ UNCHANGED <<world, idx, linked, all_entities, all_relationships,
                   deduped_entities, deduped_relationships, existing_rel_map,
                   round_idx, kgc_calls, kgc_grew, caller,
                   valid_relationships_explicit, dd, result>>

\* api.py lines 67-90: after the last chunk, entity deduplication, the
\* exact-key collapse, and the call of deduplicate_relationships_llm
MergeChunks ==
    /\ pc = "chunk"
    /\ idx > n_chunks
    /\ deduped_entities' = DedupEntities(<<>>, {}, all_entities)
    /\ deduped_relationships' = rel_map(<<>>, all_relationships)
    /\ dd' = StartDd(deduped_relationships')
    /\ caller' = "chunks"
    /\ pc' = "dedup"
    \* the per-chunk collections are not read again
    /\ all_entities' = <<>>
    /\ all_relationships' = <<>>
    /\ linked' = <<>>
    /\ UNCHANGED <<world, llm_called, idx, existing_rel_map, round_idx, kgc_calls,
                   kgc_grew, valid_relationships_explicit, rels, result>>

\* a group of one is skipped instead of passed through
DedupSingleDropped ==
    /\ pc = "dedup"
    /\ config.OPENAI_API_KEY
    /\ dd.gi <= Len(GroupKeys(dd.relationships))
    /\ Len(Group(dd.relationships, GroupKeys(dd.relationships)[dd.gi])) = 1
    /\ dd' = [dd EXCEPT !.gi = @ + 1]
    /\ UNCHANGED <<world, llm_called, pc, idx, linked, all_entities, all_relationships,
                   deduped_entities, deduped_relationships, existing_rel_map,
                   round_idx, kgc_calls, kgc_grew, caller,
                   valid_relationships_explicit, rels, result>>

\* deduplication_utils.py lines 35-38: a group of one passes through
DedupSingle ==
    /\ pc = "dedup"
    /\ config.OPENAI_API_KEY
    /\ dd.gi <= Len(GroupKeys(dd.relationships))
    /\ LET rs == Group(dd.relationships, GroupKeys(dd.relationships)[dd.gi])
       IN  /\ Len(rs) = 1
           /\ dd' = [dd EXCEPT !.gi = @ + 1,
                               !.deduped_result = Append(@, rs[1])]
    /\ UNCHANGED <<world, llm_called, pc, idx, linked, all_entities, all_relationships,
                   deduped_entities, deduped_relationships, existing_rel_map,
                   round_idx, kgc_calls, kgc_grew, caller,
                   valid_relationships_explicit, rels, result>>

\* deduplication_utils.py lines 39-80: one service call for a group of
\* several triples
DedupGroup ==
    /\ pc = "dedup"
    /\ config.OPENAI_API_KEY
    /\ dd.gi <= Len(GroupKeys(dd.relationships))
    /\ LET pair == GroupKeys(dd.relationships)[dd.gi]
           rs == Group(dd.relationships, pair)
       IN  /\ Len(rs) > 1
           /\ \E resp \in DedupResponses(rs) :
                 dd' = [dd EXCEPT
                          !.gi = @ + 1,
                          !.deduped_result = @ \o DedupGroupOutput(rs, pair, resp),
                          !.failed = IF Unprocessable(resp) THEN @ \cup {pair}
                                     ELSE @]
    /\ llm_called' = TRUE
    /\ UNCHANGED <<world, pc, idx, linked, all_entities, all_relationships,
                   deduped_entities, deduped_relationships, existing_rel_map,
                   round_idx, kgc_calls, kgc_grew, caller,
                   valid_relationships_explicit, rels, result>>

\* deduplication_utils.py lines 18-19, 81-82 and api.py lines 94-102 /
\* 127-129: the tier returns, similarity pruning follows, then the
\* completion loop starts (first pass) or the result is shaped
DedupReturn ==
    /\ pc = "dedup"
    /\ ~config.OPENAI_API_KEY \/ dd.gi > Len(GroupKeys(dd.relationships))
    /\ deduped_relationships' =
          filter_semantically_similar_relationships(<<>>, DedupOutput(config, dd))
    /\ dd' = NoDd
    /\ caller' = NoVal
    /\ IF caller = "chunks" /\ config.ENABLE_KGC
       THEN /\ existing_rel_map' = DictOf(deduped_relationships')
            /\ round_idx' = 1
            /\ pc' = "kgc"
       ELSE /\ pc' = "normalize"
            /\ UNCHANGED <<existing_rel_map, round_idx>>
    /\ UNCHANGED <<world, llm_called, idx, linked, all_entities, all_relationships,
                   deduped_entities, kgc_calls, kgc_grew,
                   valid_relationships_explicit, rels, result>>

\* api.py lines 103-109: one round calls the extractor
KgcRound ==
    /\ pc = "kgc"
    /\ round_idx \in KgcRange(config.KGC_ROUNDS)
    /\ kgc_calls' = kgc_calls + 1
    /\ caller' = "kgc"
    /\ pc' = InferEntry(config, TRUE)
    /\ UNCHANGED <<world, llm_called, idx, linked, all_entities, all_relationships,
                   deduped_entities, deduped_relationships, existing_rel_map,
                   round_idx, kgc_grew, valid_relationships_explicit, rels,
                   dd, result>>

\* api.py lines 110-116: only new keys extend the accumulated map
KgcReturn ==
    /\ pc = "infer_return"
    /\ caller = "kgc"
    /\ existing_rel_map' = AddNewKeys(existing_rel_map, rels)
    /\ kgc_grew' = (kgc_grew \/ existing_rel_map' # existing_rel_map)
    /\ round_idx' = round_idx + 1
    /\ rels' = <<>>
    /\ caller' = NoVal
    /\ pc' = "kgc"
    /\ UNCHANGED <<world, llm_called, idx, linked, all_entities, all_relationships,
                   deduped_entities, deduped_relationships, kgc_calls,
                   valid_relationships_explicit, dd, result>>

\* api.py lines 117-123: after the last round the deduplication runs again
KgcDone ==
    /\ pc = "kgc"
    /\ round_idx \notin KgcRange(config.KGC_ROUNDS)
    /\ deduped_relationships' = DictOf(existing_rel_map)
    /\ dd' = StartDd(deduped_relationships')
    /\ caller' = "kgc_dedup"
    /\ pc' = "dedup"
    /\ UNCHANGED <<world, llm_called, idx, linked, all_entities, all_relationships,
                   deduped_entities, existing_rel_map, round_idx, kgc_calls,
                   kgc_grew, valid_relationships_explicit, rels, result>>

\* api.py lines 131-154: the chunked branch shapes and returns its result
NormalizeChunked ==
    /\ pc = "normalize"
    /\ IF NormalizeRaises(deduped_entities, deduped_relationships)
       THEN /\ pc' = "raised"
            /\ result' = result
       ELSE /\ result' = Normalized(deduped_entities, deduped_relationships)
            /\ pc' = "done"
    /\ UNCHANGED <<world, llm_called, idx, linked, all_entities, all_relationships,
                   deduped_entities, deduped_relationships, existing_rel_map,
                   round_idx, kgc_calls, kgc_grew, caller,
                   valid_relationships_explicit, rels, dd>>

\* api.py lines 156-392 and 422: without chunking the entities of the whole
\* text are put into the legacy format; with relation extraction off the
\* list is returned as it is
SingleEntities ==
    /\ pc = "single"
    /\ \E l \in ExtractedLists(config) : linked' = l
    /\ IF config.RELATION_EXTRACTION
       THEN /\ caller' = "single"
            /\ pc' = InferEntry(config, FALSE)
            /\ UNCHANGED result
       ELSE /\ result' = [entities |-> [i \in DOMAIN linked' |->
                                           LegacyEntity(linked'[i])],
                          relationships |-> <<>>]
            /\ pc' = "done"
            /\ UNCHANGED caller
    /\ llm_called' = (llm_called \/ config.OPENAI_API_KEY)
    /\ UNCHANGED <<world, idx, all_entities, all_relationships,
                   deduped_entities, deduped_relationships, existing_rel_map,
                   round_idx, kgc_calls, kgc_grew,
                   valid_relationships_explicit, rels, dd>>

\* api.py lines 392-420: the relationships are attached and the tags
\* normalised
SingleReturn ==
    /\ pc = "infer_return"
    /\ caller = "single"
    /\ LET legacy == [i \in DOMAIN linked |-> LegacyEntity(linked[i])]
       IN  IF NormalizeRaises(legacy, rels)
           THEN /\ pc' = "raised"
                /\ UNCHANGED result
           ELSE /\ result' = Normalized(legacy, rels)
                /\ pc' = "done"
    /\ UNCHANGED <<world, llm_called, idx, linked, all_entities, all_relationships,
                   deduped_entities, deduped_relationships, existing_rel_map,
                   round_idx, kgc_calls, kgc_grew, caller,
                   valid_relationships_explicit, rels, dd>>

ProcNext ==
    \/ ChunkEntities /\ UNCHANGED <<lvars, xvars>>
    \/ ChunkReturn /\ UNCHANGED <<lvars, xvars>>
    \/ InferExplicit /\ UNCHANGED <<lvars, xvars>>
    \/ InferImplicit /\ UNCHANGED <<lvars, xvars>>
    \/ InferKgc /\ UNCHANGED <<lvars, xvars>>
    \/ MergeChunks /\ UNCHANGED <<lvars, xvars>>
    \/ DedupSingle /\ UNCHANGED <<lvars, xvars>>
    \/ DedupGroup /\ UNCHANGED <<lvars, xvars>>
    \/ DedupReturn /\ UNCHANGED <<lvars, xvars>>
    \/ KgcRound /\ UNCHANGED <<lvars, xvars>>
    \/ KgcReturn /\ UNCHANGED <<lvars, xvars>>
    \/ KgcDone /\ UNCHANGED <<lvars, xvars>>
    \/ NormalizeChunked /\ UNCHANGED <<lvars, xvars>>
    \/ SingleEntities /\ UNCHANGED <<lvars, xvars>>
    \/ SingleReturn /\ UNCHANGED <<lvars, xvars>>

ProcSpec == ProcInit /\ [][ProcNext]_vars


----------------------------------------------------------------------------
(* Properties of link_entities (LinkSpec) *)

CallKinds == {calls[i].kind : i \in 1..Len(calls)}

\* the entity being linked came with a syntactically valid candidate URL
CandidateValid ==
    /\ ent_idx >= 1
    /\ IsValidWikipediaUrl(entities[ent_idx].wikipedia_url)

\* a working encyclopedia URL was determined for the entity being linked
HasWorkingUrl == IsValidWikipediaUrl(wikipedia_url)

\* C4: when the first summary request against a valid candidate URL
\* (get_wikipedia_extract lines 292-301, called from linker.py line 81)
\* returns a non-empty summary, no redirect/canonical resolution, no search
\* fallback and no raw-page scraping request is issued for that entity.
C4_ShortCircuit ==
    (CandidateValid /\ first_fetch = "extract")
        => CallKinds \cap {"redirect", "search", "scrape"} = {}

\* the entity was linked to the end with the summary of the first request
C4_Witness ==
    /\ CandidateValid
    /\ first_fetch = "extract"
    /\ lpc = "next"
    /\ Len(linked_entities) = 1
    /\ linked_entities[1].wikipedia_extract = entities[1].wikipedia_url
    /\ "summary" \in CallKinds

AllLinked == {linked_entity} \cup {linked_entities[i] : i \in 1..Len(linked_entities)}

\* C5 as stated: the Wikidata lookup is issued only if an extract was obtained
\* from the encyclopedia; an entity without an extract never triggers the
\* lookup and never receives Wikidata fields.
C5_Original ==
    /\ "wikidata" \in CallKinds => linked_entity.wikipedia_extract # NoVal
    /\ \A e \in AllLinked : e.wikidata_id # NoVal => e.wikipedia_extract # NoVal

\* C5 amended: the Wikidata lookup is issued only if a working encyclopedia
\* URL was determined for the entity and USE_WIKIDATA is set (an extract is
\* not required); an entity without a working URL never triggers the lookup
\* and never receives Wikidata fields.
C5_WikidataNeedsUrl ==
    /\ "wikidata" \in CallKinds => (HasWorkingUrl /\ lcfg.USE_WIKIDATA)
    /\ \A e \in AllLinked :
          e.wikidata_id # NoVal => IsValidWikipediaUrl(e.wikipedia_url)

\* a Wikidata id was stored for an entity that has a URL but no extract
C5_Witness ==
    /\ "wikidata" \in CallKinds
    /\ HasWorkingUrl
    /\ linked_entity.wikidata_id # NoVal
    /\ linked_entity.wikipedia_extract = NoVal

\* C6 as stated: the DBpedia lookup is issued only if the Wikidata lookup
\* succeeded; an entity with no Wikidata id never triggers the DBpedia lookup
\* and never receives DBpedia fields.
C6_Original ==
    /\ "dbpedia" \in CallKinds => linked_entity.wikidata_id # NoVal
    /\ \A e \in AllLinked : e.dbpedia_info # NoVal => e.wikidata_id # NoVal

\* C6 amended: the DBpedia lookup is issued only if USE_DBPEDIA is set and a
\* working encyclopedia URL was determined for the entity, whether or not the
\* Wikidata lookup succeeded; an entity with no working URL never triggers
\* the DBpedia lookup and never receives DBpedia fields.
C6_DbpediaNeedsUrlAndSwitch ==
    /\ "dbpedia" \in CallKinds => (lcfg.USE_DBPEDIA /\ HasWorkingUrl)
    /\ \A e \in AllLinked :
          e.dbpedia_info # NoVal =>
             (lcfg.USE_DBPEDIA /\ IsValidWikipediaUrl(e.wikipedia_url))

\* DBpedia information was stored for an entity without a Wikidata id
C6_Witness ==
    /\ "dbpedia" \in CallKinds
    /\ linked_entity.dbpedia_info # NoVal
    /\ linked_entity.wikidata_id = NoVal
    /\ HasWorkingUrl

----------------------------------------------------------------------------
(* Properties of process_entities (ProcSpec) *)

\* the members of all_relationships with a given key
Members(all, k) == {i \in DOMAIN all : KeyOf(all[i]) = k}

\* C1: in the exact-key collapse applied to the relationships of all chunks,
\* every group of relationships with the same (subject, predicate, object)
\* yields exactly one representative, and if any member of the group was
\* tagged explicit by the extractor the representative is tagged explicit,
\* whatever order the duplicates arrive in.
C1_ExplicitSurvives ==
    [][(pc = "chunk" /\ pc' = "dedup") =>
          \A k \in Keys(all_relationships) :
             /\ Cardinality(Members(deduped_relationships', k)) = 1
             /\ (\E j \in Members(all_relationships, k) :
                    all_relationships[j].inferred = "explicit")
                => \A i \in Members(deduped_relationships', k) :
                      deduped_relationships'[i].inferred = "explicit"]_vars

EntityNames(ents) == {ents[i].name : i \in DOMAIN ents}

\* C2: in every result returned by process_entities, every relationship's
\* subject and object is the name of an entity of the returned entity list.
C2_ReferentialIntegrity ==
    pc = "done" =>
       \A i \in DOMAIN result.relationships :
          /\ result.relationships[i].subject \in EntityNames(result.entities)
          /\ result.relationships[i].object \in EntityNames(result.entities)

\* the code after the completion loop (api.py line 117) has been reached;
\* the loop is part of the chunked branch
AfterKgcLoop ==
    /\ config.TEXT_CHUNKING
    /\ config.ENABLE_KGC
    /\ \/ pc = "dedup" /\ caller = "kgc_dedup"
       \/ pc \in {"normalize", "done"}

\* C3: with the completion loop enabled and KGC_ROUNDS = N, the loop calls
\* the relationship extractor once per round, never more than N times, and
\* is left only after exactly N calls, also when no round found a new triple.
C3_ExactlyNRounds ==
    /\ kgc_calls <= config.KGC_ROUNDS
    /\ pc = "kgc" => kgc_calls = round_idx - 1
    /\ AfterKgcLoop => kgc_calls = config.KGC_ROUNDS

\* the loop ran MaxRounds rounds, each of which asked the service and found
\* nothing new, and the pipeline went on to its end
C3_Witness ==
    /\ pc = "done"
    /\ config.ENABLE_KGC
    /\ config.RELATION_EXTRACTION
    /\ config.KGC_ROUNDS = MaxRounds
    /\ kgc_calls = MaxRounds
    /\ ~kgc_grew

\* C7: in deduplicate_relationships_llm, for every group of several triples
\* whose service call failed or whose response could not be processed
\* (transport error, unparsable or empty JSON), all of the group's original
\* triples are in the output.
C7_FailedGroupPassesThrough ==
    pc = "dedup" =>
       \A pair \in dd.failed :
          Range(Group(dd.relationships, pair)) \subseteq Range(dd.deduped_result)

\* C8: process_entities never raises to its caller.
C8_NeverRaises == pc # "raised"

ExplicitOrImplicit == {"explicit", "implicit"}

\* C9: in every result returned by process_entities, every inferred field
\* on entities, on relationships and on relationship endpoints is explicit
\* or implicit.
C9_TagsNormalized ==
    pc = "done" =>
       /\ \A i \in DOMAIN result.entities :
             {result.entities[i].inferred,
              result.entities[i].details_inferred} \subseteq
                ExplicitOrImplicit \cup {NoVal}
       /\ \A i \in DOMAIN result.relationships :
             {result.relationships[i].inferred,
              result.relationships[i].subject_inferred,
              result.relationships[i].object_inferred} \subseteq
                ExplicitOrImplicit \cup {NoVal}

\* the second deduplication pass returns, and its input was the output of
\* the first pass (no completion round added a triple)
RerunReturns ==
    /\ pc = "dedup"
    /\ caller = "kgc_dedup"
    /\ pc' = "normalize"
    /\ ~kgc_grew

\* C10 as stated: applying the deduplication pipeline to a relationship set
\* that is already the output of that pipeline yields the same set.
C10_Original ==
    [][RerunReturns =>
          Range(deduped_relationships') = Range(deduped_relationships)]_vars

OnePerPair(seq) ==
    \A i, j \in DOMAIN seq : PairOf(seq[i]) = PairOf(seq[j]) => i = j

\* C10 amended: applying the deduplication pipeline to a relationship set
\* that is already the output of that pipeline and holds at most one triple
\* per (subject, object) pair yields the same set.
C10_IdempotentOnePerPair ==
    [][(RerunReturns /\ OnePerPair(deduped_relationships)) =>
          deduped_relationships' = deduped_relationships]_vars

\* the second pass has run over a first-pass output of two triples with
\* different (subject, object) pairs
C10_Witness ==
    /\ pc = "normalize"
    /\ config.ENABLE_KGC
    /\ ~kgc_grew
    /\ Len(deduped_relationships) = 2
    /\ OnePerPair(deduped_relationships)
    /\ deduped_relationships = existing_rel_map

----------------------------------------------------------------------------
(* Properties of the chunk merge (ProcSpec) *)

KnownTags == {"explicit", "implicit", "explizit", "implizit"}

\* the provenance of the representative of key k, in its normalised spelling
TagOf(map, k) ==
    NormalizeTag(map[CHOOSE i \in DOMAIN map : KeyOf(map[i]) = k].inferred)

\* two merged relationship lists hold the same keys, and the representative
\* of each key has the same provenance in both
SameUpToRepresentative(m1, m2) ==
    /\ Keys(m1) = Keys(m2)
    /\ \A k \in Keys(m1) : TagOf(m1, k) = TagOf(m2, k)

\* the deduplication keys of an entity list
EntityKeys(ents) ==
    {IF ents[i].wikipedia_url # NoVal THEN ents[i].wikipedia_url
     ELSE ents[i].name : i \in DOMAIN ents}

\* the last chunk has been processed: all_relationships holds the results of
\* the earlier chunks, rels the result of the last one
LastChunkDone ==
    /\ pc = "infer_return"
    /\ caller = "chunk"
    /\ idx = n_chunks
    /\ \A i \in DOMAIN all_relationships :
          all_relationships[i].inferred \in KnownTags
    /\ \A i \in DOMAIN rels : rels[i].inferred \in KnownTags

\* C11: merging the chunk results in the order [earlier, last] and in the
\* order [last, earlier] gives the same entity keys and the same relationship
\* keys, each key with the same provenance (explicit overrules implicit in
\* either order).
C11_MergeOrderIndependent ==
    LastChunkDone =>
       LET earlier_ents == SubSeq(all_entities, 1,
                                  Len(all_entities) - Len(linked))
       IN  /\ EntityKeys(DedupEntities(<<>>, {}, earlier_ents \o linked))
                = EntityKeys(DedupEntities(<<>>, {}, linked \o earlier_ents))
           /\ SameUpToRepresentative(
                  rel_map(<<>>, all_relationships \o rels),
                  rel_map(<<>>, rels \o all_relationships))

----------------------------------------------------------------------------
(* Properties of the search fallback (LinkSpec) *)

\* the summary request for the URL the search returned has delivered a
\* summary (get_wikipedia_extract line 324), for an entity whose valid
\* candidate URL had none
SearchFallbackSucceeds ==
    /\ CandidateValid
    /\ first_fetch = "empty"
    /\ lpc = "gwe_fbapi"
    /\ lpc' = "categories"

\* C12: when a syntactically valid candidate URL yields no summary the
\* search fallback is issued, and when the search succeeds the entity's
\* recorded wikipedia_url is the URL the search returned and the stored
\* summary is the one fetched for that URL.
C12_FallbackUpdatesUrl ==
    [][/\ (CandidateValid /\ first_fetch = "empty" /\ lpc' # "gwe_search")
             => "search" \in {calls'[i].kind : i \in 1..Len(calls')}
       /\ SearchFallbackSucceeds
             => /\ linked_entity'.wikipedia_url = gwe.other
                /\ linked_entity'.wikipedia_extract = gwe.other]_vars

----------------------------------------------------------------------------
(* Properties of the extraction framings (ProcSpec) *)

\* C13: in generate/compendium mode infer_entity_relationships makes a
\* single text-generation call (the second, implicit call is never reached)
\* and every triple it returns is tagged implicit, whatever the response
\* carried in its inferred field.
C13_GenerativeImplicit ==
    config.MODE \in GenModes =>
       /\ pc # "infer_implicit"
       /\ pc = "infer_return" =>
             \A i \in DOMAIN rels : rels[i].inferred = "implicit"

\* the second call of the explicit-then-implicit framing returns
MergeReturns ==
    /\ config.MODE \notin GenModes
    /\ pc = "infer_implicit"
    /\ pc' = "infer_return"

OnePerKey(seq) ==
    \A i, j \in DOMAIN seq : KeyOf(seq[i]) = KeyOf(seq[j]) => i = j

----------------------------------------------------------------------------
(* Properties of the two branches of process_entities (ProcSpec) *)

\* C15: with relation extraction on, process_entities returns its result
\* only from the output shaping that follows the Tier-2/Tier-3 pass over the
\* relationship set and, when ENABLE_KGC is set, after KGC_ROUNDS completion
\* rounds, with chunking disabled as with chunking enabled.
C15_SameConsolidation ==
    [][(pc' = "done" /\ config.RELATION_EXTRACTION) =>
          /\ pc = "normalize"
          /\ config.ENABLE_KGC => kgc_calls = config.KGC_ROUNDS]_vars

----------------------------------------------------------------------------
(* extract_json_relationships (core/relationship_inference.py) on its own:  *)
(* the response is a sequence of tokens, "[" and "]" the brackets, "o" a    *)
(* JSON object (a triple) with its separator, "x" a piece of prose or of a  *)
(* markdown fence.                                   specification ParseSpec *)

MaxRaw == 5     \* tokens per response

Tokens == {"[", "]", "o", "x"}

RawResponses == SeqsUpTo(Tokens, MaxRaw)

\* brackets opened and not yet closed after the first n tokens of s
RECURSIVE Depth(_, _)
Depth(s, n) ==
    IF n = 0 THEN 0
    ELSE Depth(s, n - 1) + (IF s[n] = "[" THEN 1 ELSE IF s[n] = "]" THEN -1 ELSE 0)

\* s is the text of one JSON array: it opens with a bracket that is closed
\* by the last token and holds objects and arrays only
WellFormedArray(s) ==
    /\ Len(s) >= 2
    /\ s[1] = "["
    /\ \A n \in 1..(Len(s) - 1) : Depth(s, n) >= 1
    /\ Depth(s, Len(s)) = 0
    /\ \A n \in DOMAIN s : s[n] # "x"

EmptyArray == <<"[", "]">>

\* json.loads: the value of a well-formed text (an array, written as its
\* text, or a lone object), an exception otherwise
JsonLoads(s) ==
    IF WellFormedArray(s) THEN [ok |-> TRUE, value |-> s]
    ELSE IF s = <<"o">> THEN [ok |-> TRUE, value |-> s]
    ELSE [ok |-> FALSE, value |-> NoVal]

\* str.find / str.rfind as 1-based positions, 0 when the token is absent
Find(s, tok) ==
    LET at == {i \in DOMAIN s : s[i] = tok}
    IN  IF at = {} THEN 0 ELSE CHOOSE i \in at : \A j \in at : i <= j

RFind(s, tok) ==
    LET at == {i \in DOMAIN s : s[i] = tok}
    IN  IF at = {} THEN 0 ELSE CHOOSE i \in at : \A j \in at : j <= i

\* lines 443-455: slice from the first "[" to the last "]" when both exist
\* in that order, else the whole text; [] when json.loads raises
extract_json_relationships(raw) ==
    LET json_start == Find(raw, "[")
        json_end == RFind(raw, "]")
        json_content == IF json_start >= 1 /\ json_end > json_start
                        THEN SubSeq(raw, json_start, json_end)
                        ELSE raw
        loaded == JsonLoads(json_content)
    IN  IF loaded.ok THEN loaded.value ELSE EmptyArray

ParseInit ==
    /\ raw_json \in RawResponses
    /\ parsed = NoVal
    /\ xpc = "ready"
    /\ LinkIdle
    /\ ProcIdle

ParseCall ==
    /\ xpc = "ready"
    /\ parsed' = extract_json_relationships(raw_json)
    /\ xpc' = "returned"
    /\ UNCHANGED raw_json

ParseNext ==
    \/ ParseCall /\ UNCHANGED <<lvars, pvars>>

ParseSpec == ParseInit /\ [][ParseNext]_vars

\* the well-formed arrays contained in the response, as (start, end)
ArraysIn(raw) ==
    {se \in (DOMAIN raw) \X (DOMAIN raw) :
        se[1] < se[2] /\ WellFormedArray(SubSeq(raw, se[1], se[2]))}

\* the array that starts first; its end is fixed by bracket matching
FirstArray(raw) ==
    LET se == CHOOSE a \in ArraysIn(raw) : \A b \in ArraysIn(raw) : a[1] <= b[1]
    IN  SubSeq(raw, se[1], se[2])

\* C16: for every response that contains a well-formed JSON array, whatever
\* prose, fencing or stray brackets surround it, extract_json_relationships
\* returns the first such array.
C16_FirstArrayReturned ==
    (xpc = "returned" /\ ArraysIn(raw_json) # {})
        => parsed = FirstArray(raw_json)

----------------------------------------------------------------------------
(* Properties of the missing credential (ProcSpec) *)

----------------------------------------------------------------------------
(* C18 *)

\* the entities link_entities does not skip (line 58: no name, no output)
NamedInputs == SelectSeq(entities, LAMBDA e : e.name # "")

\* C18: the resolution ladder never raises.  Whatever the HTTP collaborator
\* does (failed request, empty or malformed answer, page without title or
\* canonical tag), no exception leaves link_entities, every call of
\* fallback_wikipedia_url, follow_wikipedia_redirect and
\* get_wikipedia_extract returns to its caller (the run is never stuck
\* before the end), and at the end every named entity has been returned.
C18_LadderNeverRaises ==
    /\ lpc # Raised
    /\ lpc # "returned" => ENABLED LinkNext
    /\ lpc = "returned" =>
          /\ Len(linked_entities) = Len(NamedInputs)
          /\ \A i \in DOMAIN linked_entities :
                linked_entities[i].name = NamedInputs[i].name

\* the first summary request failed, the redirect check and both searches
\* were made, nothing was recovered, and the entity is returned with its
\* name and the URL alone
C18_Witness ==
    /\ lpc = "returned"
    /\ first_fetch = "error"
    /\ {"redirect", "search", "summary"} \subseteq CallKinds
    /\ Len(linked_entities) = 1
    /\ linked_entities[1].name = "A"
    /\ linked_entities[1].wikipedia_url = "u1"
    /\ linked_entities[1].wikipedia_extract = NoVal

----------------------------------------------------------------------------
(* C19 *)

\* C19: every round of the completion loop invokes the extractor in the
\* completion framing.  While the extractor runs for a round it is never in
\* the ordinary explicit/implicit framing, and what it returns to the round
\* has no key of the accumulated triple set, the triples of earlier rounds
\* included.
C19_CompletionFraming ==
    caller = "kgc" =>
        /\ pc \notin {"infer_explicit", "infer_implicit"}
        /\ pc = "infer_return" =>
              Keys(rels) \cap Keys(existing_rel_map) = {}

----------------------------------------------------------------------------
(* C20 *)

\* C20: a triple proposed in a completion round whose subject or object is
\* not the name of a known entity never enters the accumulated relationship
\* set.  Every key a round adds to the set has a known entity at both ends.
C20_UnknownEndpointDropped ==
    [][(pc = "infer_return" /\ caller = "kgc") =>
          \A k \in Keys(existing_rel_map') \ Keys(existing_rel_map) :
              /\ k[1] \in EntityNames(deduped_entities)
              /\ k[3] \in EntityNames(deduped_entities)]_vars

----------------------------------------------------------------------------
(* C21 *)

\* C21: across the rounds of the completion loop the accumulated map only
\* grows.  When a round's output is merged, every record present before is
\* still present, unchanged and at its place, and every record added has a
\* key that was not present before.
C21_AccumulatedOnlyGrows ==
    [][(pc = "infer_return" /\ caller = "kgc") =>
          /\ Len(existing_rel_map') >= Len(existing_rel_map)
          /\ \A i \in DOMAIN existing_rel_map :
                existing_rel_map'[i] = existing_rel_map[i]
          /\ \A i \in DOMAIN existing_rel_map' \ DOMAIN existing_rel_map :
                KeyOf(existing_rel_map'[i]) \notin Keys(existing_rel_map)]_vars

\* an earlier round has extended the map, and the second round now proposes
\* the key of a stored explicit triple with another record
C21_Witness ==
    /\ pc = "infer_return"
    /\ caller = "kgc"
    /\ round_idx = 2
    /\ kgc_grew
    /\ \E i \in DOMAIN existing_rel_map : \E j \in DOMAIN rels :
          /\ KeyOf(rels[j]) = KeyOf(existing_rel_map[i])
          /\ existing_rel_map[i].inferred = "explicit"
          /\ rels[j].inferred = "implicit"

----------------------------------------------------------------------------
(* C22 *)

\* C22: a failed text-generation call of a completion round does not abort
\* the pipeline.  No call made for a round ends in an exception leaving
\* process_entities; the round returns to the loop instead.
C22_FailedRoundContinues ==
    [][(caller = "kgc" /\ pc \in {"infer_kgc", "infer_explicit", "infer_implicit"})
          => pc' \in {"infer_implicit", "infer_return"}]_vars

----------------------------------------------------------------------------
(* C23 *)

\* C23: the ladder is strictly ordered, scraping comes last.  Among the
\* requests issued for one entity, no summary request follows a scraping
\* request.
C23_ScrapeLast ==
    \A i \in DOMAIN calls : \A j \in DOMAIN calls :
        (i < j /\ calls[i].kind = "scrape") => calls[j].kind # "summary"

----------------------------------------------------------------------------
(* C24 *)

\* C24: within one entity's resolution no rung is retried with the same
\* parameters.  No two summary requests for the entity name the same article
\* and no two search requests carry the same query and language.
C24_NoSameRetry ==
    \A i \in DOMAIN calls : \A j \in DOMAIN calls :
        (i < j /\ calls[i].kind \in {"summary", "search"}) => calls[i] # calls[j]

----------------------------------------------------------------------------
(* C25 *)

\* the fields link_entities writes
LinkedFields == DOMAIN EmptyLinked

\* the working URL has been recorded on the entity (line 78) and the entity
\* is still being enriched
UrlRecorded ==
    lpc \notin {"next", "fallback1", "have_url", "returned", "idle"}

\* field f of the entity being enriched is set and the step leaves it as it is
Kept(f) == linked_entity[f] # NoVal => linked_entity'[f] = linked_entity[f]

\* C25 as stated: once a field has been set by an earlier step, the working
\* URL recorded before the summary fetch included, no later step overwrites
\* or removes it.
C25_Original ==
    [][UrlRecorded => \A f \in LinkedFields : Kept(f)]_vars

\* C25: every enrichment step is additive on all fields other than
\* wikipedia_url.  Once name, summary, title, categories, Wikidata or DBpedia
\* fields are set, no later step overwrites or removes them; wikipedia_url
\* alone is replaced when the redirect check or the search fallback adopts
\* another working URL.
C25_AdditiveExceptUrl ==
    [][UrlRecorded => \A f \in LinkedFields \ {"wikipedia_url"} : Kept(f)]_vars

\* an entity that went through the redirect rung, where its URL was replaced
\* and its title set, and through all later steps
C25_Witness ==
    /\ lpc = "returned"
    /\ Len(linked_entities) = 1
    /\ entities[1].wikipedia_url = "u1"
    /\ linked_entities[1].wikipedia_url = "u2"
    /\ linked_entities[1].wikipedia_title # NoVal
    /\ linked_entities[1].wikipedia_extract # NoVal
    /\ linked_entities[1].wikipedia_categories # NoVal
    /\ linked_entities[1].wikidata_id # NoVal
    /\ linked_entities[1].dbpedia_info # NoVal

----------------------------------------------------------------------------
(* C26 *)

\* C26: a lookup miss is an absent entry.  A returned entity for which no
\* summary was recovered carries no encyclopedia record (the wikipedia source
\* of the result is built from wikipedia_url), and a returned entity carries
\* DBpedia information only when an endpoint returned bindings.
C26_MissIsAbsent ==
    lpc = "returned" =>
        \A i \in DOMAIN linked_entities :
            /\ linked_entities[i].wikipedia_extract = NoVal
                  => linked_entities[i].wikipedia_url = NoVal
            /\ linked_entities[i].dbpedia_info \in {NoVal, "full"}

----------------------------------------------------------------------------
(* C27 *)

\* C27: every triple deduplicate_relationships_llm emits for a (subject,
\* object) group, an original or a synthetic one, has that group's subject
\* and object, whatever the response objects contain.
C27_GroupEndpointsKept ==
    [][(pc = "dedup" /\ pc' = "dedup" /\ dd.gi >= 1 /\ dd'.gi = dd.gi + 1) =>
          \A i \in (Len(dd.deduped_result) + 1)..Len(dd'.deduped_result) :
              PairOf(dd'.deduped_result[i]) = GroupKeys(dd.relationships)[dd.gi]]_vars

----------------------------------------------------------------------------
(* C28 *)

\* what the step of deduplicate_relationships_llm just taken appended
Emitted ==
    SubSeq(dd'.deduped_result, Len(dd.deduped_result) + 1,
           Len(dd'.deduped_result))

\* C28: explicit overrules implicit at Tier 2.  When a group with an explicit
\* triple is collapsed, the output for the group has a triple tagged explicit
\* and no predicate that was explicit in the group is emitted tagged implicit.
C28_ExplicitSurvivesTier2 ==
    [][(pc = "dedup" /\ pc' = "dedup" /\ dd.gi >= 1 /\ dd'.gi = dd.gi + 1) =>
          LET group == Group(dd.relationships, GroupKeys(dd.relationships)[dd.gi])
              explicit == {i \in DOMAIN group : group[i].inferred = "explicit"}
          IN  (Len(group) > 1 /\ explicit # {}) =>
                 /\ \E j \in DOMAIN Emitted : Emitted[j].inferred = "explicit"
                 /\ \A j \in DOMAIN Emitted :
                       Emitted[j].inferred = "implicit" =>
                          \A i \in explicit :
                             group[i].predicate # Emitted[j].predicate]_vars

----------------------------------------------------------------------------
(* C29 *)

\* C29: for every returned entity that has a summary, the summary was fetched
\* for the article recorded in the entity's wikipedia_url.  (A summary is
\* identified by the URL of the article it was fetched for.)
C29_SummaryOfRecordedUrl ==
    lpc = "returned" =>
        \A i \in DOMAIN linked_entities :
            linked_entities[i].wikipedia_extract # NoVal =>
                linked_entities[i].wikipedia_extract
                    = linked_entities[i].wikipedia_url

----------------------------------------------------------------------------
(* C30 *)

\* C30: given an input without two relationships of the same (subject,
\* predicate, object), the output of deduplicate_relationships_llm has no two
\* relationships of the same key, whatever the service answers.
C30_NoDuplicateKeys ==
    (pc = "dedup" /\ OnePerKey(dd.relationships)) => OnePerKey(dd.deduped_result)

====
